---- MODULE Spec2Model ----
(***************************************************************************)
(* TraceNet GUI miner tool (tools/gui_miner): the mining loop of           *)
(* MinerClient, the transaction signing paths of MiningApp and the key     *)
(* file of WalletManager, as state machines.                               *)
(*                                                                         *)
(*   SpecMiner    MinerClient.start_loop / stop_loop / _mining_loop        *)
(*   SpecWallet   WalletManager.generate_wallet / save_wallet / load_wallet*)
(*                / sign and MiningApp.post_tweet / send_coins             *)
(*   SpecKeyStore the button "Generate New Wallet" and the key file        *)
(*   SpecKeys     the readers of the keypair next to generate_wallet       *)
(*   SpecStats    update_stats, its worker threads and the UI update       *)
(*   SpecGui      SpecStats with the button "Refresh Feed"                 *)
(*   SpecRemote   the remote operations of ExplorerClient and MinerClient  *)
(*   SpecLoops    the mining loop next to the status refresh               *)
(*   SpecCanon    the signable string of pairs of transactions             *)
(*   SpecMinerFair  SpecMiner under a fair scheduler                       *)
(*   SpecMining   the miner tab (start_mining / stop_mining) and its loop  *)
(*   SpecMiningKeys  one mining loop next to generate_wallet               *)
(*   SpecEnv      EnvManager and the .env file                             *)
(***************************************************************************)
EXTENDS Integers, Sequences, FiniteSets, TLC

\* Number of threading.Thread objects one MinerClient may create in a run.
MaxThreads == 2

None == "None"

\* self.mining_thread = None: no Thread object (threads are numbered from 1).
NoThread == 0

\* Number of threads update_stats may create in a run.
MaxFetch == 2

\* Number of update_stats timers that may be pending at once.
MaxTimers == 2

VARIABLES
    \* ---- MinerClient (miner.py) ----
    keep_mining,      \* self.keep_mining
    mining_thread,    \* self.mining_thread: None or the index of a thread
    pc,               \* position of each thread created by start_loop
    mine_res,         \* res of the thread's last trigger_mine call
    ctl,              \* position of the controller (GUI) thread
    lastCall,         \* what the controller's last completed call did
    stopReturned,     \* thread existed when some stop_loop returned
    cancelledInCall,  \* keep_mining was cleared during the call in flight
    thread_args,      \* the wallet_address each thread was created with
    trigger_arg,      \* the wallet_address of the thread's last trigger_mine call
    \* ---- WalletManager (wallet.py) ----
    private_key,      \* self.private_key
    public_key,       \* self.public_key
    keyfile,          \* the key file on disk
    fbuf,             \* text written to the open file object, not yet flushed
    signing_key,      \* generate_wallet's local signing_key
    wpc,              \* position of the controller inside generate_wallet
    proc,             \* "up", or "down" after a crash of the process
    file_before,      \* the key file as it was when save_wallet was entered
    loaded,           \* the last load_wallet call: the file it found, its outcome
    confirm,          \* the answer to the last "Overwrite existing wallet?"
    gen_result,       \* what the last completed generate_wallet call returned
    \* ---- MiningApp.post_tweet / send_coins (main.py) ----
    tx,               \* the handler's local tx
    signable_dict,    \* the handler's local signable_dict
    signable_data,    \* the handler's local signable_data
    signature,        \* the handler's local signature
    submitted,        \* the call the handler made into ExplorerClient
    dialog,           \* the messagebox the handler showed
    \* ---- MiningApp status refresh and feed (main.py) ----
    timers,           \* pending root.after(ms, self.update_stats) callbacks
    fpc,              \* position of each _fetch_stats_background thread
    stats,            \* the thread's local stats
    wallet_address,   \* the public_key the thread passes to get_balance
    balance_info,     \* the thread's local balance_info
    after_queue,      \* pending root.after(0, lambda: ...) callbacks, oldest first
    txt_stats,        \* text of the stats widget
    lbl_balance,      \* text of the balance label
    txt_feed,         \* text of the feed widget
    gui,              \* position of the controller thread: idle or in a request
    produced,         \* threads in the order of their root.after(0, ...) calls
    applied,          \* threads in the order _update_ui_with_data ran for them
    \* ---- calls of the two clients' remote operations ----
    explorer_call,    \* the last call of an ExplorerClient operation
    miner_call,       \* the last call of a MinerClient remote operation
    \* ---- the signable string of two transactions (main.py) ----
    pair_tx,          \* two tx dicts
    pair_data,        \* the signable_data made from each of them
    \* ---- the miner tab of MiningApp (main.py) ----
    lbl_status,       \* text of the status label
    btn_start,        \* state of the button START MINING
    btn_stop,         \* state of the button STOP MINING
    \* ---- EnvManager (main.py) ----
    env_file,         \* the .env file on disk
    lines,            \* self.lines
    env_vars,         \* self.env_vars
    env_call          \* the last operation on the EnvManager or its file

minerVars == <<keep_mining, mining_thread, pc, mine_res, ctl, lastCall,
               stopReturned, cancelledInCall, thread_args, trigger_arg>>

walletVars == <<private_key, public_key, keyfile, fbuf, signing_key, wpc, proc,
                file_before, loaded, confirm, gen_result>>

txVars == <<tx, signable_dict, signable_data, signature, submitted, dialog>>

statsVars == <<timers, fpc, stats, wallet_address, balance_info, after_queue,
               txt_stats, lbl_balance, txt_feed, gui, produced, applied>>

remoteVars == <<explorer_call, miner_call>>

canonVars == <<pair_tx, pair_data>>

buttonVars == <<lbl_status, btn_start, btn_stop>>

envVars == <<env_file, lines, env_vars, env_call>>

vars == <<minerVars, walletVars, txVars, statsVars, remoteVars, canonVars,
          buttonVars, envVars>>

Threads == 1..MaxThreads

Fetchers == 1..MaxFetch

----------------------------------------------------------------------------
(* Python values and json.dumps                                            *)
(* A str is a sequence of one-character strings; an int is the pair        *)
(* (hi, lo) standing for hi * 1000 + lo, so that millisecond timestamps    *)
(* fit; a dict is the sequence of its (key, value) items in insertion      *)
(* order.                                                                  *)

JNull == [t |-> "null"]
JStr(chars) == [t |-> "str", s |-> chars]
\* A str written as a literal in the source, free of characters to escape.
JLit(s) == [t |-> "lit", s |-> s]
JInt(hi, lo) == [t |-> "int", hi |-> hi, lo |-> lo]
JFloat(kind, neg, int, frac) ==
    [t |-> "float", kind |-> kind, neg |-> neg, int |-> int, frac |-> frac]
JDict(items) == [t |-> "dict", items |-> items]

\* Python truthiness of None / str, as used by "if not x"; a signature is a
\* non-empty hex str.
Truthy(v) == v.t = "sig" \/ (v.t = "str" /\ Len(v.s) > 0)

\* d[key] of a dict that holds key.
DictGet(d, key) ==
    LET i == CHOOSE j \in 1..Len(d.items) : d.items[j][1] = key
    IN d.items[i][2]

DictHas(d, key) == \E j \in 1..Len(d.items) : d.items[j][1] = key

DictKeys(d) == [j \in 1..Len(d.items) |-> d.items[j][1]]

\* d[key] = value: replaces in place when the key exists, else appends.
DictSet(d, key, value) ==
    IF DictHas(d, key)
    THEN JDict([j \in 1..Len(d.items) |->
                  IF d.items[j][1] = key THEN <<key, value>> ELSE d.items[j]])
    ELSE JDict(Append(d.items, <<key, value>>))

RECURSIVE DictFrom(_, _)
\* A dict display {k1: v1, k2: v2, ...} evaluated left to right onto acc.
DictFrom(pairs, acc) ==
    IF pairs = <<>> THEN acc
    ELSE DictFrom(Tail(pairs), DictSet(acc, Head(pairs)[1], Head(pairs)[2]))

RECURSIVE Concat(_)
\* "".join(chunks)
Concat(chunks) ==
    IF chunks = <<>> THEN "" ELSE Head(chunks) \o Concat(Tail(chunks))

\* json.encoder: escaping of one character inside a JSON string.
EscapeChar(c) ==
    IF c = "\"" THEN "\\\""
    ELSE IF c = "\\" THEN "\\\\"
    ELSE IF c = "\n" THEN "\\n"
    ELSE c

\* json.dumps of a str.
DumpStr(chars) ==
    "\"" \o Concat([j \in 1..Len(chars) |-> EscapeChar(chars[j])]) \o "\""

Pad3(n) ==
    IF n < 10 THEN "00" \o ToString(n)
    ELSE IF n < 100 THEN "0" \o ToString(n)
    ELSE ToString(n)

\* json.dumps of an int: int.__repr__.
DumpInt(v) ==
    IF v.hi = 0 THEN ToString(v.lo) ELSE ToString(v.hi) \o Pad3(v.lo)

\* json.dumps of a float: float.__repr__ ("10.0", "10.5"), and NaN / Infinity.
DumpFloat(v) ==
    IF v.kind = "nan" THEN "NaN"
    ELSE IF v.kind = "inf" THEN (IF v.neg THEN "-Infinity" ELSE "Infinity")
    ELSE (IF v.neg THEN "-" ELSE "") \o ToString(v.int) \o "."
         \o (IF v.frac = <<>> THEN "0" ELSE Concat(v.frac))

RECURSIVE Dumps(_)
RECURSIVE DumpItems(_)
\* The items of a dict, joined with the item separator ','.
DumpItems(items) ==
    IF items = <<>> THEN ""
    ELSE "\"" \o Head(items)[1] \o "\":" \o Dumps(Head(items)[2])
         \o (IF Tail(items) = <<>> THEN "" ELSE "," \o DumpItems(Tail(items)))

\* json.dumps(obj, separators=(',', ':')).
Dumps(v) ==
    IF v.t = "null" THEN "null"
    ELSE IF v.t = "str" THEN DumpStr(v.s)
    ELSE IF v.t = "lit" THEN "\"" \o v.s \o "\""
    ELSE IF v.t = "int" THEN DumpInt(v)
    ELSE IF v.t = "float" THEN DumpFloat(v)
    ELSE "{" \o DumpItems(v.items) \o "}"

Digits == {"0", "1", "2", "3", "4", "5", "6", "7", "8", "9"}

DigitVal(c) ==
    CASE c = "0" -> 0 [] c = "1" -> 1 [] c = "2" -> 2 [] c = "3" -> 3
      [] c = "4" -> 4 [] c = "5" -> 5 [] c = "6" -> 6 [] c = "7" -> 7
      [] c = "8" -> 8 [] c = "9" -> 9

RECURSIVE DigitsVal(_)
\* The number a sequence of decimal digits writes.
DigitsVal(ds) ==
    IF ds = <<>> THEN 0
    ELSE DigitsVal(SubSeq(ds, 1, Len(ds) - 1)) * 10 + DigitVal(ds[Len(ds)])

Whitespace == {" ", "\n", "\t"}

RECURSIVE LStrip(_)
LStrip(chars) ==
    IF chars # <<>> /\ Head(chars) \in Whitespace THEN LStrip(Tail(chars)) ELSE chars

RECURSIVE RStrip(_)
RStrip(chars) ==
    IF chars # <<>> /\ chars[Len(chars)] \in Whitespace
    THEN RStrip(SubSeq(chars, 1, Len(chars) - 1)) ELSE chars

\* str.strip()
Strip(chars) == RStrip(LStrip(chars))

RECURSIVE DropTrailingZeros(_)
DropTrailingZeros(ds) ==
    IF ds # <<>> /\ ds[Len(ds)] = "0"
    THEN DropTrailingZeros(SubSeq(ds, 1, Len(ds) - 1)) ELSE ds

\* float(text) for a text without exponent: [sign] digits [. digits], nan, inf.
\* raised stands for ValueError.
ParseFloat(text) ==
    LET t0 == Strip(text)
        signed == t0 # <<>> /\ Head(t0) \in {"+", "-"}
        neg == t0 # <<>> /\ Head(t0) = "-"
        body == IF signed THEN Tail(t0) ELSE t0
        dots == {j \in 1..Len(body) : body[j] = "."}
        dot == IF dots = {} THEN Len(body) + 1 ELSE CHOOSE j \in dots : TRUE
        ip == SubSeq(body, 1, dot - 1)
        fp == SubSeq(body, dot + 1, Len(body))
        AllDigits(ds) == \A j \in 1..Len(ds) : ds[j] \in Digits
    IN  IF body = <<"n", "a", "n">>
        THEN [raised |-> FALSE, value |-> JFloat("nan", FALSE, 0, <<>>)]
        ELSE IF body = <<"i", "n", "f">>
        THEN [raised |-> FALSE, value |-> JFloat("inf", neg, 0, <<>>)]
        ELSE IF /\ Cardinality(dots) <= 1
                /\ AllDigits(ip) /\ AllDigits(fp)
                /\ Len(ip) + Len(fp) > 0
        THEN [raised |-> FALSE,
              value |-> JFloat("finite", neg, DigitsVal(ip), DropTrailingZeros(fp))]
        ELSE [raised |-> TRUE, value |-> JNull]

----------------------------------------------------------------------------
(* MinerClient                                                             *)

\* A thread is alive from Thread.start() until _mining_loop returns or raises.
Alive(w) == pc[w] \in {"while", "print", "trigger", "sleep"}

AliveThreads == {w \in Threads : Alive(w)}

\* What requests.post(...) followed by response.json() can do (miner.py 34-35).
RemoteOutcomes == {"json_result", "json_error_body", "unreachable", "not_json"}

\* requests.post: raises when the node is unreachable, else returns a response.
requests_post(outcome) ==
    IF outcome = "unreachable"
    THEN [raised |-> TRUE, body |-> None]
    ELSE [raised |-> FALSE, body |-> outcome]

\* response.json(): raises ValueError when the body is not JSON; else the
\* value the body writes: the route's result, an object with the key "error",
\* or the empty list.
response_json(body) ==
    IF body = "not_json"
    THEN [raised |-> TRUE, value |-> None]
    ELSE [raised |-> FALSE,
          value |-> IF body = "json_error_body" THEN "remote_error"
                    ELSE IF body = "json_empty_list" THEN "empty_list"
                    ELSE "result"]

\* trigger_mine with the try/except of lines 33-37 removed.
trigger_mine_uncaught(outcome) ==
    LET r == requests_post(outcome) IN
    IF r.raised THEN [raised |-> TRUE, res |-> None]
    ELSE LET j == response_json(r.body) IN
         IF j.raised THEN [raised |-> TRUE, res |-> None]
         ELSE [raised |-> FALSE, res |-> j.value]

\* MinerClient.trigger_mine: every Exception of the request becomes {"error"}.
trigger_mine(outcome) ==
    LET r == requests_post(outcome) IN
    IF r.raised THEN [raised |-> FALSE, res |-> "error"]
    ELSE LET j == response_json(r.body) IN
         IF j.raised THEN [raised |-> FALSE, res |-> "error"]
         ELSE [raised |-> FALSE, res |-> j.value]

MinerInit ==
    /\ keep_mining = FALSE
    /\ mining_thread = NoThread
    /\ pc = [w \in Threads |-> "unborn"]
    /\ mine_res = [w \in Threads |-> None]
    /\ ctl = "idle"
    /\ lastCall = None
    /\ stopReturned = [w \in Threads |-> FALSE]
    /\ cancelledInCall = [w \in Threads |-> FALSE]
    /\ thread_args = [w \in Threads |-> JNull]
    /\ trigger_arg = [w \in Threads |-> JNull]

\* The next Thread object: threads are numbered in the order of creation.
NextThread == CHOOSE w \in Threads : pc[w] = "unborn" /\
                  \A v \in Threads : v < w => pc[v] # "unborn"

\* start_loop without the guard of lines 40-41.
start_loop_unguarded ==
    /\ UNCHANGED <<walletVars, txVars, statsVars, remoteVars, canonVars, envVars>>
    /\ ctl = "idle"
    /\ \E w \in Threads : pc[w] = "unborn"
    /\ keep_mining' = TRUE
    /\ mining_thread' = NextThread
    /\ pc' = [pc EXCEPT ![NextThread] = "while"]
    /\ thread_args' = [thread_args EXCEPT ![NextThread] = public_key]
    /\ lastCall' = "start_spawned"
    /\ UNCHANGED <<mine_res, ctl, stopReturned, cancelledInCall, trigger_arg>>

\* MinerClient.start_loop (lines 39-46), called on the controller thread; the
\* wallet_address it is called with is wallet_manager.public_key (main.py 448).
start_loop ==
    /\ UNCHANGED <<walletVars, txVars, statsVars, remoteVars, canonVars, envVars>>
    /\ ctl = "idle"
    /\ IF keep_mining
       THEN /\ lastCall' = "start_noop"
            /\ UNCHANGED <<keep_mining, mining_thread, pc, thread_args>>
       ELSE /\ \E w \in Threads : pc[w] = "unborn"
            /\ keep_mining' = TRUE
            /\ mining_thread' = NextThread
            /\ pc' = [pc EXCEPT ![NextThread] = "while"]
            /\ thread_args' = [thread_args EXCEPT ![NextThread] = public_key]
            /\ lastCall' = "start_spawned"
    /\ UNCHANGED <<mine_res, ctl, stopReturned, cancelledInCall, trigger_arg>>

\* MinerClient.stop_loop, lines 48-50: clear the flag; with no thread, return.
stop_loop ==
    /\ UNCHANGED <<walletVars, txVars, statsVars, remoteVars, canonVars, envVars>>
    /\ ctl = "idle"
    /\ keep_mining' = FALSE
    /\ cancelledInCall' = [w \in Threads |-> pc[w] = "trigger"]
    /\ IF mining_thread = NoThread
       THEN /\ lastCall' = "stop_nothread"
            /\ UNCHANGED <<ctl, stopReturned>>
       ELSE /\ ctl' = "join"
            /\ UNCHANGED <<lastCall, stopReturned>>
    /\ UNCHANGED <<mining_thread, pc, mine_res, thread_args, trigger_arg>>

\* A thread inside the network request of trigger_mine or inside
\* time.sleep(interval) can stay there longer than the join timeout of 1 s;
\* the while test and the print take no such time.
Blocked(w) == pc[w] \in {"trigger", "sleep"}

\* stop_loop, line 51: join(timeout=1) returns when the thread has ended, or
\* after the timeout with the thread still alive.
stop_loop_join ==
    /\ UNCHANGED <<walletVars, txVars, statsVars, remoteVars, canonVars, envVars>>
    /\ ctl = "join"
    /\ ~Alive(mining_thread) \/ Blocked(mining_thread)
    /\ ctl' = "idle"
    /\ lastCall' = IF Alive(mining_thread) THEN "stop_timeout" ELSE "stop_joined"
    /\ stopReturned' = [w \in Threads |-> stopReturned[w] \/ pc[w] # "unborn"]
    /\ UNCHANGED <<keep_mining, mining_thread, pc, mine_res, cancelledInCall,
                   thread_args, trigger_arg>>

\* _mining_loop line 54: the while test reads keep_mining.
loop_test(w) ==
    /\ UNCHANGED <<walletVars, txVars, statsVars, remoteVars, canonVars, buttonVars, envVars>>
    /\ pc[w] = "while"
    /\ pc' = [pc EXCEPT ![w] = IF keep_mining THEN "print" ELSE "exit"]
    /\ UNCHANGED <<keep_mining, mining_thread, mine_res, ctl, lastCall,
                   stopReturned, cancelledInCall, thread_args, trigger_arg>>

\* _mining_loop calling trigger_mine with the wallet's key of the moment.
loop_call_current_key(w) ==
    /\ UNCHANGED <<walletVars, txVars, statsVars, remoteVars, canonVars, buttonVars, envVars>>
    /\ pc[w] = "print"
    /\ pc' = [pc EXCEPT ![w] = "trigger"]
    /\ trigger_arg' = [trigger_arg EXCEPT ![w] = public_key]
    /\ UNCHANGED <<keep_mining, mining_thread, mine_res, ctl, lastCall,
                   stopReturned, cancelledInCall, thread_args>>

\* _mining_loop lines 55-56: print, then trigger_mine(wallet_address) is
\* called with the thread's own argument.
loop_call(w) ==
    /\ UNCHANGED <<walletVars, txVars, statsVars, remoteVars, canonVars, buttonVars, envVars>>
    /\ pc[w] = "print"
    /\ pc' = [pc EXCEPT ![w] = "trigger"]
    /\ trigger_arg' = [trigger_arg EXCEPT ![w] = thread_args[w]]
    /\ UNCHANGED <<keep_mining, mining_thread, mine_res, ctl, lastCall,
                   stopReturned, cancelledInCall, thread_args>>

\* _mining_loop lines 56-57: trigger_mine returns (or raises) and res is printed.
loop_return(w) ==
    /\ UNCHANGED <<walletVars, txVars, statsVars, remoteVars, canonVars, buttonVars, envVars>>
    /\ pc[w] = "trigger"
    /\ \E outcome \in RemoteOutcomes :
         LET r == trigger_mine(outcome) IN
         IF r.raised
         THEN /\ pc' = [pc EXCEPT ![w] = "crashed"]
              /\ UNCHANGED mine_res
         ELSE /\ pc' = [pc EXCEPT ![w] = "sleep"]
              /\ mine_res' = [mine_res EXCEPT ![w] = r.res]
    /\ cancelledInCall' = [cancelledInCall EXCEPT ![w] = FALSE]
    /\ UNCHANGED <<keep_mining, mining_thread, ctl, lastCall, stopReturned,
                   thread_args, trigger_arg>>

\* _mining_loop line 58: time.sleep(interval) ends.
loop_sleep(w) ==
    /\ UNCHANGED <<walletVars, txVars, statsVars, remoteVars, canonVars, buttonVars, envVars>>
    /\ pc[w] = "sleep"
    /\ pc' = [pc EXCEPT ![w] = "while"]
    /\ UNCHANGED <<keep_mining, mining_thread, mine_res, ctl, lastCall,
                   stopReturned, cancelledInCall, thread_args, trigger_arg>>

----------------------------------------------------------------------------
(* WalletManager                                                           *)
(* The key file is the sequence of JSON tokens json.dump writes (the       *)
(* indentation is whitespace between tokens and is left out). Keys are hex *)
(* strings; the 64 hex digits of an Ed25519 seed are scaled to 2.          *)

KP1 == [priv |-> <<"a", "1">>, pub |-> <<"A", "A", "1", "1">>]
KP2 == [priv |-> <<"b", "2">>, pub |-> <<"B", "B", "2", "2">>]

\* The keypairs nacl.signing.SigningKey.generate() can return.
KeyPairs == {KP1, KP2}

Tok(k) == [k |-> k]
TokStr(chars) == [k |-> "str", s |-> chars]

\* The token of a scalar value.
ValueToken(v) == IF v.t = "str" THEN TokStr(v.s) ELSE Tok("null")

RECURSIVE ItemTokens(_)
ItemTokens(items) ==
    IF items = <<>> THEN <<>>
    ELSE <<TokStr(Head(items)[1]), Tok(":"), ValueToken(Head(items)[2])>>
         \o (IF Tail(items) = <<>> THEN <<>> ELSE <<Tok(",")>> \o ItemTokens(Tail(items)))

\* json.dump(data, f, indent=4) of a dict of scalars: what is written to f.
\* Keys of the file are kept as character sequences.
DumpTokens(d) == <<Tok("{")>> \o ItemTokens(d.items) \o <<Tok("}")>>

\* The value a scalar token reads as.
TokenValue(tok) == IF tok.k = "str" THEN JStr(tok.s) ELSE JNull

RECURSIVE ParseItems(_, _)
\* The items between the braces, read left to right into the dict acc; a
\* repeated key keeps its last value.
ParseItems(toks, acc) ==
    IF Len(toks) < 3 THEN [raised |-> TRUE, value |-> JNull]
    ELSE IF ~(toks[1].k = "str" /\ toks[2].k = ":" /\ toks[3].k \in {"str", "null"})
    THEN [raised |-> TRUE, value |-> JNull]
    ELSE LET next == DictSet(acc, toks[1].s, TokenValue(toks[3])) IN
         IF Len(toks) = 3 THEN [raised |-> FALSE, value |-> next]
         ELSE IF toks[4].k # "," THEN [raised |-> TRUE, value |-> JNull]
         ELSE ParseItems(SubSeq(toks, 5, Len(toks)), next)

\* json.load(f): raised stands for json.JSONDecodeError.
JsonLoad(toks) ==
    IF toks = <<>> THEN [raised |-> TRUE, value |-> JNull]
    ELSE IF Len(toks) = 1 /\ toks[1].k \in {"str", "null"}
    THEN [raised |-> FALSE, value |-> TokenValue(toks[1])]
    ELSE IF toks[1].k = "{" /\ toks[Len(toks)].k = "}" /\ Len(toks) >= 2
    THEN IF Len(toks) = 2 THEN [raised |-> FALSE, value |-> JDict(<<>>)]
         ELSE ParseItems(SubSeq(toks, 2, Len(toks) - 1), JDict(<<>>))
    ELSE [raised |-> TRUE, value |-> JNull]

KeyPrivate == <<"p", "r", "i", "v", "a", "t", "e", "_", "k", "e", "y">>
KeyPublic == <<"p", "u", "b", "l", "i", "c", "_", "k", "e", "y">>

\* data.get(key): None when the key is missing.
DataGet(d, key) == IF DictHas(d, key) THEN DictGet(d, key) ELSE JNull

NoFile == [exists |-> FALSE, text |-> <<>>]
File(text) == [exists |-> TRUE, text |-> text]

\* save_wallet lines 24-27: the dict that is dumped.
WalletData(priv, pub) == JDict(<< <<KeyPrivate, priv>>, <<KeyPublic, pub>> >>)

\* The key file a completed save_wallet of this keypair leaves.
KeyFileOf(priv, pub) == File(DumpTokens(WalletData(priv, pub)))

\* WalletManager.load_wallet (lines 31-40): the keys after the call, the value
\* the call returns (it has no return statement) and the line it prints. A
\* json.JSONDecodeError, and the AttributeError of data.get on a value that is
\* no dict, are caught by "except Exception" and printed.
load_wallet(file, priv, pub) ==
    IF ~file.exists
    THEN [private_key |-> priv, public_key |-> pub,
          returned |-> JNull, printed |-> "none"]
    ELSE LET r == JsonLoad(file.text) IN
         IF r.raised \/ r.value.t # "dict"
         THEN [private_key |-> priv, public_key |-> pub,
               returned |-> JNull, printed |-> "Error loading wallet"]
         ELSE [private_key |-> DataGet(r.value, KeyPrivate),
               public_key |-> DataGet(r.value, KeyPublic),
               returned |-> JNull, printed |-> "none"]

\* WalletManager.__init__ (lines 7-11): both keys None, then load_wallet.
WalletManager_init(file) == load_wallet(file, JNull, JNull)

\* Key files a start of the program can find: none, one written by a completed
\* save_wallet, one whose private key is not a hex seed, an empty one, one
\* holding a JSON string instead of an object, and an object without
\* "public_key".
InitialKeyFiles ==
    { NoFile,
      KeyFileOf(JStr(KP1.priv), JStr(KP1.pub)),
      KeyFileOf(JStr(<<"z", "z">>), JStr(KP1.pub)),
      File(<<>>),
      File(<<TokStr(KP1.priv)>>),
      File(DumpTokens(JDict(<< <<KeyPrivate, JStr(KP1.priv)>> >>))) }

WalletInit ==
    /\ keyfile \in InitialKeyFiles
    /\ private_key = WalletManager_init(keyfile).private_key
    /\ public_key = WalletManager_init(keyfile).public_key
    /\ fbuf = <<>>
    /\ signing_key = JNull
    /\ wpc = "idle"
    /\ proc = "up"
    /\ file_before = keyfile
    /\ loaded = [file |-> keyfile, out |-> WalletManager_init(keyfile)]
    /\ confirm = "none"
    /\ gen_result = JNull

HexDigits == Digits \cup {"a", "b", "c", "d", "e", "f", "A", "B", "C", "D", "E", "F"}

\* HexEncoder.decode(private_key) and SigningKey(priv_bytes) succeed: the seed
\* is hex and has the seed's length.
ValidSeed(v) ==
    /\ v.t = "str"
    /\ Len(v.s) = 2
    /\ \A j \in 1..Len(v.s) : v.s[j] \in HexDigits

\* An Ed25519 signature: a function of the seed and the message.
Signature(seed, message) == [t |-> "sig", key |-> seed, msg |-> message]

\* WalletManager.sign (lines 45-62): None without a key or on any exception.
sign(priv, message) ==
    IF ~Truthy(priv) THEN JNull
    ELSE IF ~ValidSeed(priv) THEN JNull
    ELSE Signature(priv.s, message)

\* A controller that would start a callback while generate_wallet is still
\* between its statements.
ControllerIdle_reentrant == proc = "up" /\ gui = "idle"

\* The controller thread is free to run the next callback: Tk's mainloop
\* (main.py 624-626) runs one callback at a time, to its end.
ControllerIdle == proc = "up" /\ wpc = "idle" /\ gui = "idle"

\* MiningApp.generate_wallet with the answer ignored.
generate_wallet_confirm_any(answer) ==
    /\ ControllerIdle
    /\ confirm' = answer
    /\ wpc' = "generate"
    /\ UNCHANGED <<private_key, public_key, keyfile, fbuf, signing_key, proc,
                   file_before, loaded, gen_result>>
    /\ UNCHANGED <<minerVars, txVars, statsVars, remoteVars, canonVars, buttonVars, envVars>>

\* MiningApp.generate_wallet (main.py 432-434): the button "Generate New
\* Wallet" asks "Overwrite existing wallet?"; only on yes does it go on to
\* WalletManager.generate_wallet.
generate_wallet_confirm(answer) ==
    /\ ControllerIdle
    /\ confirm' = answer
    /\ wpc' = IF answer = "yes" THEN "generate" ELSE wpc
    /\ UNCHANGED <<private_key, public_key, keyfile, fbuf, signing_key, proc,
                   file_before, loaded, gen_result>>
    /\ UNCHANGED <<minerVars, txVars, statsVars, remoteVars, canonVars, buttonVars, envVars>>

\* generate_wallet lines 15-16: a fresh signing key; private_key is assigned.
generate_private ==
    /\ proc = "up" /\ wpc = "generate"
    /\ \E kp \in KeyPairs :
         /\ JStr(kp.priv) # private_key
         /\ signing_key' = kp
         /\ private_key' = JStr(kp.priv)
    /\ wpc' = "gen_pub"
    /\ gen_result' = JNull
    /\ UNCHANGED <<public_key, keyfile, fbuf, proc, file_before, loaded, confirm>>
    /\ UNCHANGED <<minerVars, txVars, statsVars, remoteVars, canonVars, buttonVars, envVars>>

\* generate_wallet line 17: public_key is assigned.
generate_public ==
    /\ proc = "up" /\ wpc = "gen_pub"
    /\ public_key' = JStr(signing_key.pub)
    /\ wpc' = "save"
    /\ UNCHANGED <<private_key, keyfile, fbuf, signing_key, proc, file_before, loaded,
                   confirm, gen_result>>
    /\ UNCHANGED <<minerVars, txVars, statsVars, remoteVars, canonVars, buttonVars, envVars>>

\* save_wallet line 28: open(self.keyfile, 'w') creates or truncates the file.
save_open ==
    /\ proc = "up" /\ wpc = "save"
    /\ file_before' = keyfile
    /\ keyfile' = File(<<>>)
    /\ fbuf' = <<>>
    /\ wpc' = "dump"
    /\ UNCHANGED <<private_key, public_key, signing_key, proc, loaded, confirm,
                   gen_result>>
    /\ UNCHANGED <<minerVars, txVars, statsVars, remoteVars, canonVars, buttonVars, envVars>>

\* save_wallet line 28: open raises OSError (no permission, read-only or full
\* disk); nothing catches it in save_wallet or generate_wallet, so the call of
\* generate_wallet ends with the exception and the key file as it was.
save_open_raises ==
    /\ proc = "up" /\ wpc = "save"
    /\ wpc' = "idle"
    /\ signing_key' = JNull
    /\ gen_result' = [t |-> "raised"]
    /\ UNCHANGED <<private_key, public_key, keyfile, fbuf, proc, file_before,
                   loaded, confirm>>
    /\ UNCHANGED <<minerVars, txVars, statsVars, remoteVars, canonVars, buttonVars, envVars>>

\* save_wallet line 29: json.dump writes into the file object's buffer.
save_dump ==
    /\ proc = "up" /\ wpc = "dump"
    /\ fbuf' = DumpTokens(WalletData(private_key, public_key))
    /\ wpc' = "close"
    /\ UNCHANGED <<private_key, public_key, keyfile, signing_key, proc, file_before,
                   loaded, confirm, gen_result>>
    /\ UNCHANGED <<minerVars, txVars, statsVars, remoteVars, canonVars, buttonVars, envVars>>

\* save_wallet: leaving the with block flushes the buffer and closes the file;
\* generate_wallet returns public_key (lines 19-20).
save_close ==
    /\ proc = "up" /\ wpc = "close"
    /\ keyfile' = File(keyfile.text \o fbuf)
    /\ fbuf' = <<>>
    /\ signing_key' = JNull
    /\ wpc' = "idle"
    /\ gen_result' = public_key
    /\ UNCHANGED <<private_key, public_key, proc, file_before, loaded, confirm>>
    /\ UNCHANGED <<minerVars, txVars, statsVars, remoteVars, canonVars, buttonVars, envVars>>

\* The process dies (kill, power loss): what was not flushed is lost.
crash ==
    /\ proc = "up"
    /\ proc' = "down"
    /\ fbuf' = <<>>
    /\ UNCHANGED <<private_key, public_key, keyfile, signing_key, wpc, file_before,
                   loaded, confirm, gen_result>>
    /\ UNCHANGED <<minerVars, txVars, statsVars, remoteVars, canonVars, buttonVars, envVars>>

\* The process starts again: WalletManager.__init__ reads the key file.
restart ==
    /\ proc = "down"
    /\ proc' = "up"
    /\ private_key' = WalletManager_init(keyfile).private_key
    /\ public_key' = WalletManager_init(keyfile).public_key
    /\ fbuf' = <<>>
    /\ signing_key' = JNull
    /\ wpc' = "idle"
    /\ file_before' = keyfile
    /\ loaded' = [file |-> keyfile, out |-> WalletManager_init(keyfile)]
    /\ confirm' = "none"
    /\ gen_result' = JNull
    /\ tx' = JNull /\ signable_dict' = JNull /\ signable_data' = ""
    /\ signature' = JNull /\ submitted' = [api |-> "none"] /\ dialog' = "none"
    /\ UNCHANGED <<keyfile>>
    /\ txt_feed' = ""
    /\ UNCHANGED <<minerVars, remoteVars, canonVars, buttonVars, envVars>>
    /\ UNCHANGED <<timers, fpc, stats, wallet_address, balance_info, after_queue,
                   txt_stats, lbl_balance, gui, produced, applied>>

----------------------------------------------------------------------------
(* ExplorerClient and MinerClient.get_status                               *)
(* A request either raises (node unreachable) or returns a response with a *)
(* status code and a body. A result is the client's own dict {"error":     *)
(* msg}, or the value response.json() returned.                            *)

Unreachable == [raised |-> TRUE, status |-> 0, body |-> None]
Response(status, body) == [raised |-> FALSE, status |-> status, body |-> body]

Bodies == {"json_result", "json_empty_list", "json_error_body", "not_json"}

\* What requests.get / requests.post can do.
HttpOutcomes ==
    {Unreachable} \cup {Response(st, b) : st \in {200, 500}, b \in Bodies}

\* {"error": msg}
ErrorDict(msg) == [t |-> "error", msg |-> msg]
\* The value of response.json().
JsonValue(v) == [t |-> "json", v |-> v]
\* return [] (explorer.py 28, 30, 49, 51): the same value as an empty JSON list.
EmptyList == JsonValue("empty_list")

\* The shape of get_stats, get_balance and get_status: try: if status_code ==
\* 200: return response.json() else: return {"error": "Status..."}; except
\* Exception as e: return {"error": str(e)}.
get_checked(o) ==
    IF o.raised THEN ErrorDict("Connection refused")
    ELSE IF o.status = 200
    THEN LET j == response_json(o.body) IN
         IF j.raised THEN ErrorDict("Expecting value") ELSE JsonValue(j.value)
    ELSE ErrorDict("Status: 500")

\* The shape of get_latest_blocks and get_feed: try: if status_code == 200:
\* return response.json(); return []; except: return [].
get_list(o) ==
    IF o.raised THEN EmptyList
    ELSE IF o.status = 200
    THEN LET j == response_json(o.body) IN
         IF j.raised THEN EmptyList ELSE JsonValue(j.value)
    ELSE EmptyList

\* The shape of post_content, send_transfer (and MinerClient.trigger_mine):
\* try: return response.json(); except Exception as e: return {"error": str(e)}.
post_unchecked(o) ==
    IF o.raised THEN ErrorDict("Connection refused")
    ELSE LET j == response_json(o.body) IN
         IF j.raised THEN ErrorDict("Expecting value") ELSE JsonValue(j.value)

\* ExplorerClient.get_stats (explorer.py 7-20)
get_stats(o) == get_checked(o)
\* ExplorerClient.get_latest_blocks (explorer.py 22-30)
get_latest_blocks(o) == get_list(o)
\* ExplorerClient.get_balance (explorer.py 32-41)
get_balance(o) == get_checked(o)
\* ExplorerClient.get_feed (explorer.py 43-51)
get_feed(o) == get_list(o)
\* ExplorerClient.post_content (explorer.py 53-59)
post_content(o) == post_unchecked(o)
\* ExplorerClient.send_transfer (explorer.py 61-68)
send_transfer(o) == post_unchecked(o)
\* MinerClient.get_status (miner.py 11-23)
get_status(o) == get_checked(o)

\* "error" in res, for a dict, a list or a str result.
HasError(res) == res.t = "error" \/ (res.t = "json" /\ res.v = "remote_error")

ExplorerOps ==
    {"get_stats", "get_latest_blocks", "get_balance", "get_feed", "post_content",
     "send_transfer"}

MinerOps == {"get_status", "trigger_mine"}

\* trigger_mine never reads the status code: what its request does, as
\* trigger_mine's outcomes.
MineOutcome(o) ==
    IF o.raised THEN "unreachable"
    ELSE IF o.body = "json_empty_list" THEN "json_result"
    ELSE o.body

\* The value a call of the operation returns when the request does o.
OpResult(op, o) ==
    CASE op = "get_stats" -> get_stats(o)
      [] op = "get_latest_blocks" -> get_latest_blocks(o)
      [] op = "get_balance" -> get_balance(o)
      [] op = "get_feed" -> get_feed(o)
      [] op = "post_content" -> post_content(o)
      [] op = "send_transfer" -> send_transfer(o)
      [] op = "get_status" -> get_status(o)
      [] op = "trigger_mine" ->
           LET r == trigger_mine(MineOutcome(o)) IN
           IF r.raised THEN [t |-> "raised"]
           ELSE IF r.res = "error" THEN ErrorDict("Connection refused")
           ELSE JsonValue(r.res)

NoCall == [op |-> "none"]

RemoteInit ==
    /\ explorer_call = NoCall
    /\ miner_call = NoCall

\* A call of an ExplorerClient operation, with what its request does.
explorer_request(op, o) ==
    /\ explorer_call' = [op |-> op, outcome |-> o, result |-> OpResult(op, o)]
    /\ UNCHANGED miner_call
    /\ UNCHANGED <<minerVars, walletVars, txVars, statsVars, canonVars, buttonVars, envVars>>

\* A call of MinerClient.get_status or trigger_mine, with what its request does.
miner_request(op, o) ==
    /\ miner_call' = [op |-> op, outcome |-> o, result |-> OpResult(op, o)]
    /\ UNCHANGED explorer_call
    /\ UNCHANGED <<minerVars, walletVars, txVars, statsVars, canonVars, buttonVars, envVars>>

----------------------------------------------------------------------------
(* MiningApp.post_tweet and MiningApp.send_coins                           *)

\* int(time.time() * 1000) at the two moments a handler can run.
Clock == {JInt(1700000000, 0), JInt(1700000000, 1)}

\* Contents of the post text widget (Text.get ends with a newline).
PostTexts == { <<"\n">>, <<"h", "i", "\n">>, <<"a", "\"", "\n">> }

\* Contents of the recipient entry.
ToTexts == { <<"B", "B", "2", "2">>, <<>> }

\* Contents of the amount entry.
AmountTexts ==
    { <<"1", "0">>, <<"1", "0", ".", "5">>, <<"-", "5">>, <<"a", "b", "c">>,
      <<>>, <<"n", "a", "n">> }

\* What ExplorerClient.post_content / send_transfer returns: a dict with or
\* without the key "error".
Responses == {"ok", "error"}

\* refresh_feed lines 385-397: what the feed widget shows for the value
\* get_feed returned.
FeedText(feed) ==
    IF feed = EmptyList \/ HasError(feed)
    THEN "No posts or node offline."
    ELSE "posts"

\* The node's answers to the get_feed of a refresh: reachable with posts,
\* reachable without posts, unreachable.
FeedOutcomes ==
    {Response(200, "json_result"), Response(200, "json_empty_list"), Unreachable}

TxInit ==
    /\ tx = JNull
    /\ signable_dict = JNull
    /\ signable_data = ""
    /\ signature = JNull
    /\ submitted = [api |-> "none"]
    /\ dialog = "none"

\* post_tweet lines 257-278: payload_data and tx.
BuildPostTx(content, timestamp, pub) ==
    LET payload_data ==
            DictFrom(<< <<"content", JStr(content)>>,
                        <<"type", JLit("post")>>,
                        <<"timestamp", timestamp>> >>, JDict(<<>>))
    IN DictFrom(<< <<"tx_id", JStr(<<>>)>>,
                   <<"from_wallet", pub>>,
                   <<"to_wallet", pub>>,
                   <<"type", JLit("POST_CONTENT")>>,
                   <<"payload", payload_data>>,
                   <<"amount", JInt(0, 0)>>,
                   <<"fee", JInt(0, 0)>>,
                   <<"timestamp", timestamp>>,
                   <<"nonce", timestamp>>,
                   <<"sender_public_key", pub>> >>, JDict(<<>>))

\* post_tweet lines 282-303: signable_dict (its display names tx_id twice).
PostSignableDict(t) ==
    DictFrom(<< <<"tx_id", JStr(<<>>)>>,
                <<"tx_id", JStr(<<>>)>>,
                <<"from_wallet", DictGet(t, "from_wallet")>>,
                <<"to_wallet", DictGet(t, "to_wallet")>>,
                <<"type", DictGet(t, "type")>>,
                <<"payload", DictGet(t, "payload")>>,
                <<"amount", DictGet(t, "amount")>>,
                <<"fee", DictGet(t, "fee")>>,
                <<"timestamp", DictGet(t, "timestamp")>>,
                <<"nonce", DictGet(t, "nonce")>>,
                <<"sender_public_key", DictGet(t, "sender_public_key")>> >>,
             JDict(<<>>))

\* send_coins lines 336-351: fee and tx.
BuildTransferTx(to_wallet, amount, timestamp, pub) ==
    DictFrom(<< <<"tx_id", JStr(<<>>)>>,
                <<"from_wallet", pub>>,
                <<"to_wallet", JStr(to_wallet)>>,
                <<"type", JLit("TRANSFER")>>,
                <<"payload", JDict(<<>>)>>,
                <<"amount", amount>>,
                <<"fee", JInt(0, 500)>>,
                <<"timestamp", timestamp>>,
                <<"nonce", timestamp>>,
                <<"sender_public_key", pub>> >>, JDict(<<>>))

\* send_coins signable_dict with sender_signature taken along.
TransferSignableDict_withSignature(t) ==
    DictFrom(<< <<"tx_id", JStr(<<>>)>>,
                <<"from_wallet", DictGet(t, "from_wallet")>>,
                <<"to_wallet", DictGet(t, "to_wallet")>>,
                <<"type", DictGet(t, "type")>>,
                <<"payload", DictGet(t, "payload")>>,
                <<"amount", DictGet(t, "amount")>>,
                <<"fee", DictGet(t, "fee")>>,
                <<"timestamp", DictGet(t, "timestamp")>>,
                <<"nonce", DictGet(t, "nonce")>>,
                <<"sender_public_key", DictGet(t, "sender_public_key")>>,
                <<"sender_signature", JNull>> >>, JDict(<<>>))

\* send_coins lines 353-364: signable_dict.
TransferSignableDict(t) ==
    DictFrom(<< <<"tx_id", JStr(<<>>)>>,
                <<"from_wallet", DictGet(t, "from_wallet")>>,
                <<"to_wallet", DictGet(t, "to_wallet")>>,
                <<"type", DictGet(t, "type")>>,
                <<"payload", DictGet(t, "payload")>>,
                <<"amount", DictGet(t, "amount")>>,
                <<"fee", DictGet(t, "fee")>>,
                <<"timestamp", DictGet(t, "timestamp")>>,
                <<"nonce", DictGet(t, "nonce")>>,
                <<"sender_public_key", DictGet(t, "sender_public_key")>> >>,
             JDict(<<>>))

\* The signature test with every value of sign let through.
SignatureOk_always(sig) == TRUE

\* "if not signature: ... return" (main.py 309-311, 369-371), negated.
SignatureOk(sig) == Truthy(sig)

\* The handler's locals when it returns.
Locals(t, sd, sdata, sig, sub, dlg) ==
    /\ tx' = t
    /\ signable_dict' = sd
    /\ signable_data' = sdata
    /\ signature' = sig
    /\ submitted' = sub
    /\ dialog' = dlg

\* MiningApp.post_tweet (lines 248-322) with the text of the post widget, the
\* clock and the node's answer to the post; the refresh_feed that follows a
\* successful post fills the feed widget from the node's answer to get_feed.
\* (Each local is bound once, in program order.)
post_tweet(text, now, res) ==
    /\ ControllerIdle
    /\ \E content \in {Strip(text)} :
         IF content = <<>>
         THEN /\ Locals(JNull, JNull, "", JNull, [api |-> "none"], "none")
              /\ UNCHANGED txt_feed
         ELSE IF ~Truthy(private_key)
         THEN /\ Locals(JNull, JNull, "", JNull, [api |-> "none"],
                        "You need a wallet to post!")
              /\ UNCHANGED txt_feed
         ELSE \E t \in {BuildPostTx(content, now, public_key)} :
              \E sd \in {PostSignableDict(t)} :
              \E sdata \in {Dumps(sd)} :
              \E sig \in {sign(private_key, sdata)} :
                IF ~SignatureOk(sig)
                THEN /\ Locals(t, sd, sdata, sig, [api |-> "none"], "Signing failed")
                     /\ UNCHANGED txt_feed
                ELSE \E signed \in {DictSet(t, "sender_signature", sig)} :
                       /\ Locals(signed, sd, sdata, sig,
                                 [api |-> "post_content", payload |-> signed],
                                 IF res = "error" THEN "Failed" ELSE "Success")
                       /\ IF res = "error" THEN UNCHANGED txt_feed
                          ELSE \E feed \in FeedOutcomes :
                                 txt_feed' = FeedText(get_feed(feed))
    /\ UNCHANGED <<minerVars, walletVars, remoteVars, canonVars, buttonVars, envVars>>
    /\ UNCHANGED <<timers, fpc, stats, wallet_address, balance_info, after_queue,
                   txt_stats, lbl_balance, gui, produced, applied>>

\* MiningApp.send_coins (lines 324-381) with the texts of the two entries, the
\* clock and the node's answer.
send_coins(to_text, amount_text, now, res) ==
    /\ ControllerIdle
    /\ \E to_wallet \in {Strip(to_text)} :
       \E amount \in {ParseFloat(Strip(amount_text))} :
         IF amount.raised
         THEN Locals(JNull, JNull, "", JNull, [api |-> "none"], "Invalid Amount")
         ELSE IF ~Truthy(private_key)
         THEN Locals(JNull, JNull, "", JNull, [api |-> "none"], "Wallet not loaded")
         ELSE \E t \in {BuildTransferTx(to_wallet, amount.value, now, public_key)} :
              \E sd \in {TransferSignableDict(t)} :
              \E sdata \in {Dumps(sd)} :
              \E sig \in {sign(private_key, sdata)} :
                IF ~SignatureOk(sig)
                THEN Locals(t, sd, sdata, sig, [api |-> "none"], "Signing failed")
                ELSE \E signed \in {DictSet(t, "sender_signature", sig)} :
                       Locals(signed, sd, sdata, sig,
                              [api |-> "send_transfer", payload |-> signed],
                              IF res = "error" THEN "Transaction Failed"
                              ELSE "Success")
    /\ UNCHANGED <<minerVars, walletVars, statsVars, remoteVars, canonVars, buttonVars, envVars>>

----------------------------------------------------------------------------
(* The signable string as a function of a tx dict                          *)
(* Both handlers make signable_data from tx in the same way (main.py       *)
(* 282-306 and 355-366); here it is applied to two tx dicts, the second    *)
(* one with the same items put together in another order.                  *)

CanonInit ==
    /\ pair_tx = <<JNull, JNull>>
    /\ pair_data = <<"", "">>

\* The two handlers' tx dicts for a wallet and inputs that pass their checks.
BuiltTxs ==
    {[path |-> "post", t |-> BuildPostTx(<<"h", "i">>, now, JStr(KP1.pub))] :
        now \in Clock}
    \cup {[path |-> "transfer",
           t |-> BuildTransferTx(<<"B", "B", "2", "2">>,
                                 ParseFloat(<<"1", "0">>).value, now, JStr(KP1.pub))] :
            now \in Clock}

\* Orders in which the items of a dict can have been inserted.
Orders == {"as_built", "reversed", "rotated"}

RECURSIVE Reversed(_)
Reversed(seq) ==
    IF seq = <<>> THEN <<>> ELSE Append(Reversed(Tail(seq)), Head(seq))

\* The dict with the items of d, inserted in another order.
Assemble(d, order) ==
    IF d.items = <<>> \/ order = "as_built" THEN d
    ELSE IF order = "reversed" THEN JDict(Reversed(d.items))
    ELSE JDict(Append(Tail(d.items), Head(d.items)))

\* The tx with its own fields inserted in order top and the fields of its
\* payload in order inner.
AssembleTx(t, top, inner) ==
    Assemble(DictSet(t, "payload", Assemble(DictGet(t, "payload"), inner)), top)

\* signable_dict and json.dumps of it, as the handler of the path does it.
SignableData(path, t) ==
    Dumps(IF path = "post" THEN PostSignableDict(t) ELSE TransferSignableDict(t))

\* The first tx as its handler builds it.
sign_first ==
    /\ \E a \in BuiltTxs :
         /\ pair_tx' = [pair_tx EXCEPT ![1] = a.t]
         /\ pair_data' = [pair_data EXCEPT ![1] = SignableData(a.path, a.t)]
    /\ UNCHANGED <<minerVars, walletVars, txVars, statsVars, remoteVars, buttonVars, envVars>>

\* The second tx: a handler's tx with its items in some order.
sign_second ==
    /\ \E b \in BuiltTxs, top \in Orders, inner \in Orders :
       \E t \in {AssembleTx(b.t, top, inner)} :
         /\ pair_tx' = [pair_tx EXCEPT ![2] = t]
         /\ pair_data' = [pair_data EXCEPT ![2] = SignableData(b.path, t)]
    /\ UNCHANGED <<minerVars, walletVars, txVars, statsVars, remoteVars, buttonVars, envVars>>

----------------------------------------------------------------------------
(* MiningApp: the status refresh (update_stats, _fetch_stats_background,   *)
(* _update_ui_with_data) and refresh_feed                                  *)
(* Tk runs every callback (button command, after callback) on the          *)
(* controller thread, one at a time; a callback that is inside a request   *)
(* keeps the controller until the request returns.                         *)

\* The node's answers to the requests of a refresh: the route's JSON, a
\* non-success status, a refused connection.
StatsOutcomes ==
    {Response(200, "json_result"), Response(500, "json_error_body"), Unreachable}

\* MiningApp.__init__: the widgets as created (lines 110, 212, 418) and the
\* first update_stats timer (line 52).
StatsInit ==
    /\ timers = 1
    /\ fpc = [w \in Fetchers |-> "unborn"]
    /\ stats = [w \in Fetchers |-> JNull]
    /\ wallet_address = [w \in Fetchers |-> JNull]
    /\ balance_info = [w \in Fetchers |-> JNull]
    /\ after_queue = <<>>
    /\ txt_stats = ""
    /\ lbl_balance = "Balance: Loading..."
    /\ txt_feed = ""
    /\ gui = "idle"
    /\ produced = <<>>
    /\ applied = <<>>

\* The next thread update_stats creates: threads are numbered in the order of
\* creation.
NextFetcher == CHOOSE w \in Fetchers : fpc[w] = "unborn" /\
                   \A v \in Fetchers : v < w => fpc[v] # "unborn"

\* update_stats lines 524: the thread is started in _fetch_stats_background,
\* about to call get_stats.
SpawnFetcher == fpc' = [fpc EXCEPT ![NextFetcher] = "get_stats"]

\* update_stats run by its timer: the timer that fired is gone, line 527
\* schedules the next one.
update_stats_timer ==
    /\ gui = "idle" /\ timers > 0
    /\ \E w \in Fetchers : fpc[w] = "unborn"
    /\ SpawnFetcher
    /\ timers' = (timers - 1) + 1
    /\ UNCHANGED <<stats, wallet_address, balance_info, after_queue, txt_stats,
                   lbl_balance, txt_feed, gui, produced, applied>>
    /\ UNCHANGED <<minerVars, walletVars, txVars, remoteVars, canonVars, buttonVars, envVars>>

\* update_stats run by the button "Refresh Stats" (line 421): line 527
\* schedules one more timer.
update_stats_button ==
    /\ gui = "idle" /\ timers < MaxTimers
    /\ \E w \in Fetchers : fpc[w] = "unborn"
    /\ SpawnFetcher
    /\ timers' = timers + 1
    /\ UNCHANGED <<stats, wallet_address, balance_info, after_queue, txt_stats,
                   lbl_balance, txt_feed, gui, produced, applied>>
    /\ UNCHANGED <<minerVars, walletVars, txVars, remoteVars, canonVars, buttonVars, envVars>>

\* _fetch_stats_background line 533: get_stats returns.
fetch_get_stats(w, o) ==
    /\ fpc[w] = "get_stats"
    /\ stats' = [stats EXCEPT ![w] = get_stats(o)]
    /\ fpc' = [fpc EXCEPT ![w] = "test_key"]
    /\ UNCHANGED <<timers, wallet_address, balance_info, after_queue, txt_stats,
                   lbl_balance, txt_feed, gui, produced, applied>>
    /\ UNCHANGED <<minerVars, walletVars, txVars, remoteVars, canonVars, buttonVars, envVars>>

\* Lines 536-537: balance_info = None; the test reads public_key.
fetch_test_key(w) ==
    /\ fpc[w] = "test_key"
    /\ fpc' = [fpc EXCEPT ![w] = IF Truthy(public_key) THEN "read_key" ELSE "after"]
    /\ UNCHANGED <<timers, stats, wallet_address, balance_info, after_queue,
                   txt_stats, lbl_balance, txt_feed, gui, produced, applied>>
    /\ UNCHANGED <<minerVars, walletVars, txVars, remoteVars, canonVars, buttonVars, envVars>>

\* Line 538: public_key is read again as the argument; get_balance is called.
fetch_read_key(w) ==
    /\ fpc[w] = "read_key"
    /\ wallet_address' = [wallet_address EXCEPT ![w] = public_key]
    /\ fpc' = [fpc EXCEPT ![w] = "get_balance"]
    /\ UNCHANGED <<timers, stats, balance_info, after_queue, txt_stats,
                   lbl_balance, txt_feed, gui, produced, applied>>
    /\ UNCHANGED <<minerVars, walletVars, txVars, remoteVars, canonVars, buttonVars, envVars>>

\* Line 538: get_balance returns.
fetch_get_balance(w, o) ==
    /\ fpc[w] = "get_balance"
    /\ balance_info' = [balance_info EXCEPT ![w] = get_balance(o)]
    /\ fpc' = [fpc EXCEPT ![w] = "after"]
    /\ UNCHANGED <<timers, stats, wallet_address, after_queue, txt_stats,
                   lbl_balance, txt_feed, gui, produced, applied>>
    /\ UNCHANGED <<minerVars, walletVars, txVars, remoteVars, canonVars, buttonVars, envVars>>

\* Tk's queue with the newest callback run first.
Enqueue_lifo(queue, item) == <<item>> \o queue

\* root.after(0, callback): Tk runs callbacks that are due in the order in
\* which they were scheduled.
Enqueue(queue, item) == Append(queue, item)

\* Line 541: the thread schedules _update_ui_with_data(stats, balance_info)
\* on the controller and ends.
fetch_after(w) ==
    /\ fpc[w] = "after"
    /\ after_queue' = Enqueue(after_queue,
                              [w |-> w, stats |-> stats[w],
                               balance_info |-> balance_info[w]])
    /\ produced' = Append(produced, w)
    /\ fpc' = [fpc EXCEPT ![w] = "done"]
    /\ UNCHANGED <<timers, stats, wallet_address, balance_info, txt_stats,
                   lbl_balance, txt_feed, gui, applied>>
    /\ UNCHANGED <<minerVars, walletVars, txVars, remoteVars, canonVars, buttonVars, envVars>>

\* _update_ui_with_data lines 548-559: the text of the stats widget.
StatsText(st) ==
    IF HasError(st)
    THEN IF st.t = "error" /\ st.msg = "Connection refused"
         THEN "NODE IS OFFLINE"
         ELSE "Error"
    ELSE "stats"

\* Lines 550-555: is_online.
IsOnline(st) == ~(st.t = "error" /\ st.msg = "Connection refused")

\* Lines 562-568: the text of the balance label (old is the text it has).
BalanceText(st, bal, old) ==
    IF IsOnline(st) /\ bal # JNull /\ bal # EmptyList
    THEN IF bal.t = "json" /\ bal.v = "result" THEN "Balance: n TRC"
         ELSE IF HasError(bal) THEN "Balance: Error"
         ELSE old
    ELSE "Balance: Node Offline"

\* _update_ui_with_data (lines 545-568), run by Tk on the controller for the
\* oldest pending callback.
update_ui_with_data ==
    /\ gui = "idle" /\ after_queue # <<>>
    /\ txt_stats' = StatsText(Head(after_queue).stats)
    /\ lbl_balance' = BalanceText(Head(after_queue).stats,
                                  Head(after_queue).balance_info, lbl_balance)
    /\ applied' = Append(applied, Head(after_queue).w)
    /\ after_queue' = Tail(after_queue)
    /\ UNCHANGED <<timers, fpc, stats, wallet_address, balance_info, txt_feed,
                   gui, produced>>
    /\ UNCHANGED <<minerVars, walletVars, txVars, remoteVars, canonVars, buttonVars, envVars>>

\* refresh_feed line 384, run by the button "Refresh Feed": the controller
\* calls get_feed.
refresh_feed_call ==
    /\ gui = "idle"
    /\ gui' = "get_feed"
    /\ UNCHANGED <<timers, fpc, stats, wallet_address, balance_info, after_queue,
                   txt_stats, lbl_balance, txt_feed, produced, applied>>
    /\ UNCHANGED <<minerVars, walletVars, txVars, remoteVars, canonVars, buttonVars, envVars>>

\* refresh_feed lines 384-397: get_feed returns and the feed widget is filled.
refresh_feed_return(o) ==
    /\ gui = "get_feed"
    /\ txt_feed' = FeedText(get_feed(o))
    /\ gui' = "idle"
    /\ UNCHANGED <<timers, fpc, stats, wallet_address, balance_info, after_queue,
                   txt_stats, lbl_balance, produced, applied>>
    /\ UNCHANGED <<minerVars, walletVars, txVars, remoteVars, canonVars, buttonVars, envVars>>

\* The requests in flight and the thread each one runs on: a thread of
\* update_stats, or the controller (w is 0 then).
InFlight ==
    {[api |-> fpc[w], on |-> "worker", w |-> w] :
        w \in {v \in Fetchers : fpc[v] \in {"get_stats", "get_balance"}}}
    \cup (IF gui = "idle" THEN {}
          ELSE {[api |-> gui, on |-> "controller", w |-> 0]})

----------------------------------------------------------------------------
(* MiningApp: the miner tab (setup_miner_tab, start_mining, stop_mining)   *)
(* A disabled button does not run its command.                             *)

\* setup_miner_tab lines 403-409.
ButtonsInit ==
    /\ lbl_status = "Miner Status: STOPPED"
    /\ btn_start = "normal"
    /\ btn_stop = "disabled"

\* start_mining without the test of lines 444-446.
start_mining_unchecked ==
    /\ ControllerIdle /\ btn_start = "normal"
    /\ start_loop
    /\ lbl_status' = "Miner Status: RUNNING"
    /\ btn_start' = "disabled"
    /\ btn_stop' = "normal"

\* MiningApp.start_mining (lines 443-451), the command of START MINING.
start_mining ==
    /\ ControllerIdle /\ btn_start = "normal"
    /\ IF ~Truthy(public_key)
       THEN /\ ctl = "idle"
            /\ dialog' = "Please generate a wallet first!"
            /\ UNCHANGED <<tx, signable_dict, signable_data, signature, submitted>>
            /\ UNCHANGED <<minerVars, walletVars, statsVars, remoteVars, canonVars,
                           buttonVars, envVars>>
       ELSE /\ start_loop
            /\ lbl_status' = "Miner Status: RUNNING"
            /\ btn_start' = "disabled"
            /\ btn_stop' = "normal"

\* stop_mining lines 455-457.
ShowStopped ==
    /\ lbl_status' = "Miner Status: STOPPED"
    /\ btn_start' = "normal"
    /\ btn_stop' = "disabled"

\* MiningApp.stop_mining (lines 453-454), the command of STOP MINING: the
\* call of stop_loop, up to its join.
stop_mining_call ==
    /\ ControllerIdle /\ btn_stop = "normal"
    /\ stop_loop
    /\ IF mining_thread = NoThread THEN ShowStopped ELSE UNCHANGED buttonVars

\* stop_mining lines 454-457: the join of stop_loop returns, then label and
\* buttons are set.
stop_mining_return ==
    /\ stop_loop_join
    /\ ShowStopped

----------------------------------------------------------------------------
(* EnvManager                                                              *)
(* The .env file is its text, a sequence of characters; self.lines is the  *)
(* list readlines returns, each line with its newline; self.env_vars is a  *)
(* function from the keys it holds to their values.                        *)

RECURSIVE JoinLines(_)
\* f.writelines(lines): the lines one after the other.
JoinLines(ls) == IF ls = <<>> THEN <<>> ELSE Head(ls) \o JoinLines(Tail(ls))

RECURSIVE SplitLines(_, _)
\* f.readlines(): the text cut after every newline (cur is the line begun).
SplitLines(text, cur) ==
    IF text = <<>> THEN (IF cur = <<>> THEN <<>> ELSE <<cur>>)
    ELSE IF Head(text) = "\n"
    THEN <<Append(cur, "\n")>> \o SplitLines(Tail(text), <<>>)
    ELSE SplitLines(Tail(text), Append(cur, Head(text)))

\* The position of the first '=' of a text; 0 when it has none.
FirstEq(chars) ==
    IF \E j \in 1..Len(chars) : chars[j] = "="
    THEN CHOOSE j \in 1..Len(chars) :
            chars[j] = "=" /\ \A i \in 1..(j - 1) : chars[i] # "="
    ELSE 0

\* Lines 586-588 and 603: the line is neither blank nor a comment and holds
\* an '='.
IsEntry(line) ==
    LET stripped == Strip(line)
    IN stripped # <<>> /\ Head(stripped) # "#" /\ FirstEq(stripped) > 0

\* stripped.split('=', 1), each part stripped (lines 589-590, 604-605).
EntryKey(line) ==
    LET stripped == Strip(line) IN Strip(SubSeq(stripped, 1, FirstEq(stripped) - 1))

EntryVal(line) ==
    LET stripped == Strip(line)
    IN Strip(SubSeq(stripped, FirstEq(stripped) + 1, Len(stripped)))

\* d[key] = value on a dict d.
Put(d, key, value) ==
    [x \in (DOMAIN d) \cup {key} |-> IF x = key THEN value ELSE d[x]]

RECURSIVE ParseLines(_, _)
\* load lines 584-592: the entries of the lines, read in order into acc.
ParseLines(ls, acc) ==
    IF ls = <<>> THEN acc
    ELSE ParseLines(Tail(ls),
                    IF IsEntry(Head(ls))
                    THEN Put(acc, EntryKey(Head(ls)), EntryVal(Head(ls)))
                    ELSE acc)

\* No .env file.
NoEnvFile == [exists |-> FALSE, text |-> <<>>]

\* EnvManager.load (lines 577-592): self.lines of a file.
LoadLines(file) == IF file.exists THEN SplitLines(file.text, <<>>) ELSE <<>>

\* EnvManager.get (lines 594-595) on the dict d.
EnvGet(d, key, default) == IF key \in DOMAIN d THEN d[key] ELSE default

\* f"{key}={value}\n" (lines 606, 614).
FormatEntry(key, value) == key \o <<"=">> \o value \o <<"\n">>

\* EnvManager.set lines 599-616: new_lines.
SetLines(ls, key, value) ==
    LET Matches(line) == IsEntry(line) /\ EntryKey(line) = key
        updated == \E j \in 1..Len(ls) : Matches(ls[j])
    IN IF updated
       THEN [j \in 1..Len(ls) |->
                IF Matches(ls[j]) THEN FormatEntry(key, value) ELSE ls[j]]
       ELSE (IF ls # <<>> /\ ls[Len(ls)][Len(ls[Len(ls)])] # "\n"
             THEN Append(ls, <<"\n">>) ELSE ls)
            \o <<FormatEntry(key, value)>>

\* The keys the node configuration tab sets (lines 140-156): PORT and HOST.
EnvKeys == {<<"P", "O", "R", "T">>, <<"H", "O", "S", "T">>}

\* Texts of the port entry and the values of the host selection.
EnvValues == {<<"1">>, <<" ", "1">>, <<>>}

\* .env files as a user's editor leaves them.
EnvFiles ==
    { [exists |-> TRUE, text |-> <<"#", "c", "\n", "P", "O", "R", "T", "=", "2", "\n">>],
      [exists |-> TRUE, text |-> <<"H", "O", "S", "T", " ", "=", " ", "1">>],
      [exists |-> TRUE,
       text |-> <<"P", "O", "R", "T", "=", "1", "\n", "\n",
                  "P", "O", "R", "T", "=", "2", "\n">>] }

\* EnvManager.__init__ (lines 571-575) where no .env file exists.
EnvInit ==
    /\ env_file = NoEnvFile
    /\ lines = <<>>
    /\ env_vars = <<>>
    /\ env_call = [op |-> "load"]

\* The .env file is edited outside the GUI.
env_edit(file) ==
    /\ env_file' = file
    /\ env_call' = [op |-> "edit"]
    /\ UNCHANGED <<lines, env_vars>>
    /\ UNCHANGED <<minerVars, walletVars, txVars, statsVars, remoteVars, canonVars,
                   buttonVars>>

\* EnvManager.load (lines 577-592), run by __init__ at the start of the GUI.
env_load ==
    /\ lines' = LoadLines(env_file)
    /\ env_vars' = ParseLines(LoadLines(env_file), <<>>)
    /\ env_call' = [op |-> "load"]
    /\ UNCHANGED env_file
    /\ UNCHANGED <<minerVars, walletVars, txVars, statsVars, remoteVars, canonVars,
                   buttonVars>>

\* EnvManager.set (lines 597-616).
env_set(key, value) ==
    /\ env_vars' = Put(env_vars, key, value)
    /\ lines' = SetLines(lines, key, value)
    /\ env_call' = [op |-> "set", key |-> key, value |-> value]
    /\ UNCHANGED env_file
    /\ UNCHANGED <<minerVars, walletVars, txVars, statsVars, remoteVars, canonVars,
                   buttonVars>>

\* EnvManager.save (lines 618-620).
env_save ==
    /\ env_file' = [exists |-> TRUE, text |-> JoinLines(lines)]
    /\ env_call' = [op |-> "save"]
    /\ UNCHANGED <<lines, env_vars>>
    /\ UNCHANGED <<minerVars, walletVars, txVars, statsVars, remoteVars, canonVars,
                   buttonVars>>

----------------------------------------------------------------------------
(* Specifications                                                          *)

\* The program after MiningApp.__init__ has built its three collaborators.
Init ==
    /\ MinerInit /\ WalletInit /\ TxInit /\ StatsInit /\ RemoteInit /\ CanonInit
    /\ ButtonsInit /\ EnvInit

NextMiner ==
    \/ (start_loop /\ UNCHANGED buttonVars)
    \/ (stop_loop /\ UNCHANGED buttonVars)
    \/ (stop_loop_join /\ UNCHANGED buttonVars)
    \/ \E w \in Threads : loop_test(w)
    \/ \E w \in Threads : loop_call(w)
    \/ \E w \in Threads : loop_return(w)
    \/ \E w \in Threads : loop_sleep(w)

\* The mining loop; wallet and handlers are idle.
SpecMiner == Init /\ [][NextMiner]_vars

\* The threads of the mining loop are scheduled, each trigger_mine call and
\* each sleep returns, and the join of stop_loop returns (it has a timeout).
MinerFairness ==
    /\ \A w \in Threads : WF_vars(loop_test(w))
    /\ \A w \in Threads : WF_vars(loop_call(w))
    /\ \A w \in Threads : WF_vars(loop_return(w))
    /\ \A w \in Threads : WF_vars(loop_sleep(w))
    /\ WF_vars(stop_loop_join /\ UNCHANGED buttonVars)

\* The mining loop under a fair scheduler.
SpecMinerFair == Init /\ [][NextMiner]_vars /\ MinerFairness

NextMining ==
    \/ start_mining
    \/ stop_mining_call
    \/ stop_mining_return
    \/ \E w \in Threads : loop_test(w)
    \/ \E w \in Threads : loop_call(w)
    \/ \E w \in Threads : loop_return(w)
    \/ \E w \in Threads : loop_sleep(w)

\* The miner tab of one MiningApp with the threads of the mining loop; the
\* wallet is the one loaded at start.
SpecMining == Init /\ [][NextMining]_vars

NextMiningKeys ==
    \/ (pc[1] = "unborn" /\ start_mining)
    \/ stop_mining_call
    \/ stop_mining_return
    \/ \E w \in Threads : loop_test(w)
    \/ \E w \in Threads : loop_call(w)
    \/ \E w \in Threads : loop_return(w)
    \/ \E w \in Threads : loop_sleep(w)
    \/ (ctl = "idle" /\ generate_wallet_confirm("yes"))
    \/ generate_private
    \/ generate_public
    \/ save_open
    \/ save_dump
    \/ save_close

\* One mining loop, started once, next to the button "Generate New Wallet".
SpecMiningKeys == Init /\ [][NextMiningKeys]_vars

NextEnv ==
    \/ \E file \in EnvFiles : env_edit(file)
    \/ env_load
    \/ \E key \in EnvKeys, value \in EnvValues : env_set(key, value)
    \/ env_save

\* The EnvManager of the GUI and its .env file.
SpecEnv == Init /\ [][NextEnv]_vars

NextWallet ==
    \/ generate_wallet_confirm("yes")
    \/ generate_private
    \/ generate_public
    \/ save_open
    \/ save_dump
    \/ save_close
    \/ crash
    \/ restart
    \/ \E text \in PostTexts, now \in Clock, res \in Responses :
          post_tweet(text, now, res)
    \/ \E to_text \in ToTexts, amount_text \in AmountTexts, now \in Clock,
          res \in Responses : send_coins(to_text, amount_text, now, res)

\* The wallet, its key file and the two signing handlers; the miner is idle.
SpecWallet == Init /\ [][NextWallet]_vars

NextKeyStore ==
    \/ \E answer \in {"yes", "no"} : generate_wallet_confirm(answer)
    \/ generate_private
    \/ generate_public
    \/ save_open
    \/ save_open_raises
    \/ save_dump
    \/ save_close
    \/ crash
    \/ restart

\* The button "Generate New Wallet" and the key file, with saves that fail
\* and processes that die; no transaction is made.
SpecKeyStore == Init /\ [][NextKeyStore]_vars

NextCanon ==
    \/ sign_first
    \/ sign_second

\* The signable string of pairs of transactions.
SpecCanon == Init /\ [][NextCanon]_vars

NextLoops ==
    \/ (start_loop /\ UNCHANGED buttonVars)
    \/ (stop_loop /\ UNCHANGED buttonVars)
    \/ (stop_loop_join /\ UNCHANGED buttonVars)
    \/ \E w \in Threads : loop_test(w)
    \/ \E w \in Threads : loop_call(w)
    \/ \E w \in Threads : loop_return(w)
    \/ \E w \in Threads : loop_sleep(w)
    \/ (ctl = "idle" /\ fpc[1] = "unborn" /\ update_stats_timer)
    \/ \E w \in Fetchers : fetch_get_stats(w, Response(200, "json_result"))
    \/ \E w \in Fetchers : fetch_test_key(w)
    \/ \E w \in Fetchers : fetch_read_key(w)
    \/ \E w \in Fetchers : fetch_get_balance(w, Response(200, "json_result"))
    \/ \E w \in Fetchers : fetch_after(w)
    \/ (ctl = "idle" /\ update_ui_with_data)

\* The mining loop next to the status refresh: the buttons START MINING and
\* STOP MINING and the refresh timer share the controller thread, which is
\* not free while stop_loop waits in join.
SpecLoops == Init /\ [][NextLoops]_vars

\* The node's answer to every request of the run.
NodeUp == Response(200, "json_result")

NextKeys ==
    \/ generate_wallet_confirm("yes")
    \/ generate_private
    \/ generate_public
    \/ save_open
    \/ save_dump
    \/ save_close
    \/ (fpc[1] = "unborn" /\ update_stats_timer)
    \/ \E w \in Fetchers : fetch_get_stats(w, NodeUp)
    \/ \E w \in Fetchers : fetch_test_key(w)
    \/ \E w \in Fetchers : fetch_read_key(w)
    \/ \E w \in Fetchers : fetch_get_balance(w, NodeUp)
    \/ \E w \in Fetchers : fetch_after(w)
    \/ update_ui_with_data
    \/ \E now \in Clock : post_tweet(<<"h", "i">>, now, "ok")
    \/ \E now \in Clock : send_coins(<<"B", "B", "2", "2">>, <<"1", "0">>, now, "ok")

\* The readers of the keypair next to the button "Generate New Wallet": one
\* status refresh on its worker thread, and the two signing handlers.
SpecKeys == Init /\ [][NextKeys]_vars

NextStats ==
    \/ update_stats_timer
    \/ update_stats_button
    \/ \E w \in Fetchers, o \in StatsOutcomes : fetch_get_stats(w, o)
    \/ \E w \in Fetchers : fetch_test_key(w)
    \/ \E w \in Fetchers : fetch_read_key(w)
    \/ \E w \in Fetchers, o \in StatsOutcomes : fetch_get_balance(w, o)
    \/ \E w \in Fetchers : fetch_after(w)
    \/ update_ui_with_data

\* The status refresh; miner and wallet are idle.
SpecStats == Init /\ [][NextStats]_vars

NextRemote ==
    \/ \E op \in ExplorerOps, o \in HttpOutcomes : explorer_request(op, o)
    \/ \E op \in MinerOps, o \in HttpOutcomes : miner_request(op, o)

\* The remote operations of the two clients, called in any order.
SpecRemote == Init /\ [][NextRemote]_vars

NextGui ==
    \/ update_stats_timer
    \/ update_stats_button
    \/ \E w \in Fetchers, o \in StatsOutcomes : fetch_get_stats(w, o)
    \/ \E w \in Fetchers : fetch_test_key(w)
    \/ \E w \in Fetchers : fetch_read_key(w)
    \/ \E w \in Fetchers, o \in StatsOutcomes : fetch_get_balance(w, o)
    \/ \E w \in Fetchers : fetch_after(w)
    \/ update_ui_with_data
    \/ refresh_feed_call
    \/ \E o \in FeedOutcomes : refresh_feed_return(o)

\* The status refresh together with the button "Refresh Feed".
SpecGui == Init /\ [][NextGui]_vars

----------------------------------------------------------------------------
(* Claims about the mining loop (checked under SpecMiner)                  *)

\* C1: at most one worker thread running _mining_loop is alive at any time,
\* under every interleaving of start_loop, stop_loop and the workers' steps.
C1_AtMostOneWorker == Cardinality(AliveThreads) <= 1

\* C2: once a stop_loop has returned, no thread that existed at that stop_loop
\* begins another trigger_mine call (a call in flight may still complete).
C2_NoCallAfterStop ==
    [][\A w \in Threads :
         (stopReturned[w] /\ pc[w] # "trigger") => pc'[w] # "trigger"]_vars

\* C3: start_loop on a running loop (in particular a second start_loop in a
\* row) spawns nothing and leaves keep_mining and mining_thread as they are;
\* stop_loop on a stopped loop returns normally and leaves the loop stopped.
C3_IdempotentStartStop ==
    [][/\ (start_loop /\ (keep_mining \/ lastCall \in {"start_spawned", "start_noop"}))
            => /\ UNCHANGED <<keep_mining, mining_thread, pc>>
               /\ keep_mining
               /\ lastCall' = "start_noop"
       /\ (stop_loop /\ ~keep_mining)
            => /\ ~keep_mining'
               /\ UNCHANGED <<mining_thread, pc>>
               /\ ctl' = "join" \/ lastCall' = "stop_nothread"
       /\ stop_loop_join
            => /\ ~keep_mining /\ ~keep_mining'
               /\ UNCHANGED <<mining_thread, pc>>
               /\ lastCall' \in {"stop_joined", "stop_timeout"}]_vars

\* C3 witness: two start_loop calls in a row have been made and one thread exists.
C3_Witness ==
    /\ lastCall = "start_noop"
    /\ Cardinality({w \in Threads : pc[w] # "unborn"}) = 1
    /\ keep_mining /\ mining_thread = 1

\* C4: when keep_mining is cleared while trigger_mine is executing, the worker
\* does not execute time.sleep(interval) after that call returns.
C4_NoSleepAfterCancel ==
    [][\A w \in Threads :
         (pc[w] = "trigger" /\ cancelledInCall[w]) => pc'[w] # "sleep"]_vars

\* C5: a failing trigger_mine never ends the loop: after every call the worker
\* is alive and sleeps the interval, after the sleep it tests keep_mining, with
\* keep_mining set it calls trigger_mine again, and a worker only ever ends at
\* the while test with keep_mining cleared.
C5_FailureKeepsLoop ==
    [][\A w \in Threads :
         /\ (pc[w] = "trigger" /\ pc'[w] # "trigger")
              => (pc'[w] = "sleep" /\ mine_res'[w] \in {"result", "remote_error", "error"})
         /\ (pc[w] = "sleep" /\ pc'[w] # "sleep") => pc'[w] = "while"
         /\ (pc[w] = "while" /\ pc'[w] # "while" /\ keep_mining) => pc'[w] = "print"
         /\ (pc[w] = "print" /\ pc'[w] # "print") => pc'[w] = "trigger"
         /\ (Alive(w) /\ pc'[w] \in {"exit", "crashed"})
              => (pc[w] = "while" /\ ~keep_mining /\ pc'[w] = "exit")]_vars

\* C5 witness: a worker whose last call failed is calling trigger_mine again.
C5_Witness == \E w \in Threads : mine_res[w] = "error" /\ pc[w] = "trigger"

----------------------------------------------------------------------------
(* Claims about signing and the key file (checked under SpecWallet)        *)

\* The names of the signable fields, in the order of signing.
SignableKeys ==
    <<"tx_id", "from_wallet", "to_wallet", "type", "payload", "amount", "fee",
      "timestamp", "nonce", "sender_public_key">>

\* The signable string of a transaction, written out field by field: tx_id
\* empty, the other nine fields of t, no sender_signature, no whitespace.
CanonicalString(t) ==
    "{\"tx_id\":\"\""
    \o ",\"from_wallet\":" \o Dumps(DictGet(t, "from_wallet"))
    \o ",\"to_wallet\":" \o Dumps(DictGet(t, "to_wallet"))
    \o ",\"type\":" \o Dumps(DictGet(t, "type"))
    \o ",\"payload\":" \o Dumps(DictGet(t, "payload"))
    \o ",\"amount\":" \o Dumps(DictGet(t, "amount"))
    \o ",\"fee\":" \o Dumps(DictGet(t, "fee"))
    \o ",\"timestamp\":" \o Dumps(DictGet(t, "timestamp"))
    \o ",\"nonce\":" \o Dumps(DictGet(t, "nonce"))
    \o ",\"sender_public_key\":" \o Dumps(DictGet(t, "sender_public_key"))
    \o "}"

\* v is a signature made with a well-formed seed over message.
IsSignatureOver(v, message) ==
    v.t = "sig" /\ ValidSeed(JStr(v.key)) /\ v.msg = message

\* C6: a handler run with no private key loaded, or in which sign returns
\* None, makes no call to post_content / send_transfer; every transaction
\* passed to them carries a sender_signature that is a signature, made with
\* the loaded key, over that transaction's signable string.
C6_NoUnsignedSubmission ==
    [][/\ ( /\ proc = "up" /\ txVars' # txVars
            /\ \/ ~Truthy(private_key)
               \/ sign(private_key, signable_data') = JNull )
          => submitted'.api = "none"
       /\ ~Truthy(signature') => submitted'.api = "none"
       /\ (proc = "up" /\ txVars' # txVars /\ submitted'.api # "none")
          => /\ DictHas(submitted'.payload, "sender_signature")
             /\ IsSignatureOver(DictGet(submitted'.payload, "sender_signature"),
                                CanonicalString(submitted'.payload))
             /\ DictGet(submitted'.payload, "sender_signature").key = private_key.s
      ]_vars

\* C6 witness: a handler was stopped by a failed sign (a key is loaded but is
\* no seed) and submitted nothing.
C6_Witness ==
    /\ dialog = "Signing failed" /\ Truthy(private_key)
    /\ signature = JNull /\ submitted.api = "none" /\ tx.t = "dict"

\* C7: whenever a handler has signed, the signed string is exactly the ten
\* signable fields in order, with tx_id the empty string and without
\* sender_signature; sender_signature is in tx only once sign has succeeded,
\* and the other fields of the (submitted) tx equal the signed ones.
C7_SignedFields ==
    signable_data # "" =>
        /\ DictKeys(signable_dict) = SignableKeys
        /\ DictGet(signable_dict, "tx_id") = JStr(<<>>)
        /\ signable_data = CanonicalString(signable_dict)
        /\ \A j \in 1..Len(SignableKeys) :
             DictGet(tx, SignableKeys[j]) = DictGet(signable_dict, SignableKeys[j])
        /\ DictKeys(tx) = IF Truthy(signature)
                          THEN Append(SignableKeys, "sender_signature")
                          ELSE SignableKeys
        /\ Truthy(signature) =>
             /\ DictGet(tx, "sender_signature") = signature
             /\ signature.msg = signable_data
             /\ submitted.api # "none" /\ submitted.payload = tx

\* C7 witness: a transfer with a non-empty recipient was signed and submitted.
C7_Witness ==
    /\ submitted.api = "send_transfer"
    /\ DictGet(tx, "to_wallet") = JStr(<<"B", "B", "2", "2">>)
    /\ signable_data # ""

\* C8: for the transfer from AA11 to BB22 of the entered amount 10 at
\* 1700000000000, the signed string is the literal of the specification, with
\* the amount written as the integer token 10.
C8_GoldenVector ==
    [][( /\ public_key = JStr(<<"A", "A", "1", "1">>)
         /\ \E res \in Responses :
              send_coins(<<"B", "B", "2", "2">>, <<"1", "0">>,
                         JInt(1700000000, 0), res)
         /\ signature'.t = "sig" )
       => signable_data' =
            "{\"tx_id\":\"\",\"from_wallet\":\"AA11\",\"to_wallet\":\"BB22\",\"type\":\"TRANSFER\",\"payload\":{},\"amount\":10,\"fee\":500,\"timestamp\":1700000000000,\"nonce\":1700000000000,\"sender_public_key\":\"AA11\"}"
      ]_vars

\* C9: send_coins never builds (nor signs, nor submits) a transaction whose
\* amount is negative.
C9_NoNegativeAmount ==
    (tx.t = "dict" /\ DictGet(tx, "amount").t = "float")
        => ~DictGet(tx, "amount").neg

\* C10: after a crash inside save_wallet's with block the key file is either
\* what it was before the save or the complete file of the new keypair.
C10_KeyFileNeverPartial ==
    (proc = "down" /\ wpc \in {"dump", "close"})
        => keyfile \in {file_before, KeyFileOf(private_key, public_key)}

----------------------------------------------------------------------------
(* Claims about loading and generating the wallet (under SpecKeyStore)     *)

\* The key strings that occur in the key files of the model.
KeyStrings ==
    {JStr(KP1.priv), JStr(KP1.pub), JStr(KP2.priv), JStr(KP2.pub),
     JStr(<<"z", "z">>)}

\* The file holds a JSON object with both keys.
WellFormed(file) == \E p \in KeyStrings, q \in KeyStrings : file = KeyFileOf(p, q)

\* What the caller of load_wallet has in hand after the call: the returned
\* value and the manager's two fields (the printed line goes to stdout).
CallerView(out) == <<out.returned, out.private_key, out.public_key>>

\* C11: load_wallet distinguishes its three outcomes: without a key file it
\* yields no key and no error; with a well-formed file it yields the stored
\* keypair; with a file that exists but is malformed it yields an error that
\* its caller can tell apart from the no-file outcome.
C11_LoadOutcomes ==
    /\ ~loaded.file.exists
         => /\ loaded.out.private_key = JNull /\ loaded.out.public_key = JNull
            /\ loaded.out.returned = JNull /\ loaded.out.printed = "none"
    /\ \A p \in KeyStrings, q \in KeyStrings :
         loaded.file = KeyFileOf(p, q)
           => loaded.out.private_key = p /\ loaded.out.public_key = q
    /\ (loaded.file.exists /\ ~WellFormed(loaded.file))
         => CallerView(loaded.out) # CallerView(load_wallet(NoFile, JNull, JNull))

\* The keys a load_wallet of this key file gives a new WalletManager.
Persisted(file) ==
    <<WalletManager_init(file).private_key, WalletManager_init(file).public_key>>

\* C18: in the running GUI the keypair, in memory and in the key file,
\* changes only inside a generate_wallet action whose confirmation dialog
\* was answered yes; a declined confirmation leaves both as they are.
C18_ReplaceOnlyAfterYes ==
    [][(proc = "up" /\ proc' = "up")
         => /\ (private_key' # private_key \/ public_key' # public_key
                 \/ keyfile' # keyfile)
                => (confirm = "yes" /\ confirm' = "yes" /\ wpc # "idle")
            /\ (wpc = "idle" /\ wpc' # "idle") => confirm' = "yes"
            /\ (confirm' = "no" /\ wpc = "idle")
                => (wpc' = "idle" /\ UNCHANGED <<private_key, public_key, keyfile>>)
      ]_vars

\* C18 witness: a wallet loaded at the start has been replaced by a generate
\* that was confirmed with yes.
C18_Witness ==
    /\ Truthy(loaded.out.private_key) /\ confirm = "yes" /\ wpc = "idle"
    /\ private_key # loaded.out.private_key
    /\ keyfile = KeyFileOf(private_key, public_key)

\* C19: whenever generate_wallet has returned a public key, the key file
\* holds exactly the new keypair and a load_wallet of it yields that keypair;
\* and when persisting has failed, the keypair in memory does not differ from
\* the persisted one.
C19_GeneratePersists ==
    /\ gen_result.t = "str"
         => /\ gen_result = public_key
            /\ keyfile = KeyFileOf(private_key, public_key)
            /\ Persisted(keyfile) = <<private_key, public_key>>
    /\ gen_result.t = "raised"
         => Persisted(keyfile) = <<private_key, public_key>>

\* The keypairs the wallet held whole in this run: the one read from the key
\* file at start, and those of the key generator.
WholePairs ==
    {<<loaded.out.private_key, loaded.out.public_key>>}
        \cup {<<JStr(kp.priv), JStr(kp.pub)>> : kp \in KeyPairs}

\* What the signing path read: the private key that made the signature and
\* the public key it wrote into the transaction.
SignedWith == <<JStr(signature.key), DictGet(tx, "sender_public_key")>>

\* C15: no reader observes a half-updated key.  Whatever generate_wallet is
\* doing, a signature is made with the private key of the keypair whose
\* public key the transaction names (from_wallet and sender_public_key), and
\* the address the status-refresh worker asks the balance of is the public
\* key of a keypair, never the new private key next to the old public key.
C15_NoHalfUpdatedKey ==
    /\ signature.t = "sig"
          => /\ SignedWith \in WholePairs
             /\ DictGet(tx, "from_wallet") = DictGet(tx, "sender_public_key")
    /\ \A w \in Fetchers :
          wallet_address[w] # JNull
              => \E pair \in WholePairs : wallet_address[w] = pair[2]

\* A signature made with a generated keypair, then a second generate_wallet
\* between its two assignments while the worker has read public_key.
C15_Witness ==
    /\ signature.t = "sig" /\ signature.key = KP2.priv
    /\ wpc = "gen_pub"
    /\ private_key = JStr(KP1.priv) /\ public_key = JStr(KP2.pub)
    /\ fpc[1] = "get_balance" /\ wallet_address[1] = public_key

----------------------------------------------------------------------------
(* Claims about the status refresh (checked under SpecGui and SpecStats)   *)

\* C12: the controller thread never performs a request to the node itself:
\* every request in flight runs on a worker thread.
C12_ControllerNeverInRequest == \A c \in InFlight : c.on # "controller"

\* The threads whose callbacks are pending, oldest first.
QueuedThreads == [j \in 1..Len(after_queue) |-> after_queue[j].w]

C16_OneRefreshTimer == timers <= 1

----------------------------------------------------------------------------
(* Claims about the remote operations (checked under SpecRemote)           *)

\* The request failed: node unreachable, an exception during the request
\* (a body that is not JSON), or a non-success status.
Failure(o) == o.raised \/ o.status # 200 \/ o.body = "not_json"

\* C14: every remote operation turns a failure of its request into an
\* explicit {"error": message} result: the failure neither escapes as an
\* exception nor comes back as a value that a successful request of the same
\* operation also returns.
C14_FailuresAreErrors ==
    \A call \in {explorer_call, miner_call} :
        (call.op # "none" /\ Failure(call.outcome))
          => /\ call.result.t = "error"
             /\ \A o \in HttpOutcomes :
                  ~Failure(o) => OpResult(call.op, o) # call.result

----------------------------------------------------------------------------
(* Claims about the two loops (checked under SpecLoops)                    *)

\* The schedule of the status refresh and its results.
RefreshState ==
    <<timers, fpc, stats, wallet_address, balance_info, after_queue, txt_stats,
      lbl_balance, produced, applied>>

\* A step of the program that stops the mining loop and leaves the status
\* refresh as it is.
StopsMining == NextLoops /\ keep_mining' = FALSE /\ UNCHANGED RefreshState

\* A step of the program that stops the status refresh (no update_stats is
\* scheduled any more) and leaves the mining loop as it is.
StopsRefresh == NextLoops /\ timers' = 0 /\ UNCHANGED <<keep_mining, mining_thread>>

\* C17: the mining loop and the status-refresh loop share no state and are
\* independently startable and stoppable: a step of start_loop / stop_loop
\* leaves the refresh schedule and its results unchanged, a step of the
\* status refresh leaves keep_mining and mining_thread unchanged, and with
\* the controller free each running loop can be stopped while the other
\* stays as it is.
C17_IndependentLoops ==
    /\ [][(keep_mining' # keep_mining \/ mining_thread' # mining_thread
              \/ ctl' # ctl \/ lastCall' # lastCall)
            => UNCHANGED RefreshState]_vars
    /\ [][(RefreshState' # RefreshState)
            => UNCHANGED <<keep_mining, mining_thread>>]_vars
    /\ []((ctl = "idle" /\ keep_mining /\ timers > 0) => ENABLED StopsMining)
    /\ []((ctl = "idle" /\ keep_mining /\ timers > 0) => ENABLED StopsRefresh)

----------------------------------------------------------------------------
(* Claims about the signable string (checked under SpecCanon)              *)

DictKeySet(d) == {d.items[j][1] : j \in 1..Len(d.items)}

\* Two dicts hold the same keys with the same values (dict == dict).
SameItems(d1, d2) ==
    /\ DictKeySet(d1) = DictKeySet(d2)
    /\ \A k \in DictKeySet(d1) : DictGet(d1, k) = DictGet(d2, k)

\* Two tx dicts have identical signable fields: the same keys, the same
\* value under each, the payloads holding the same items.
SameFields(t1, t2) ==
    /\ DictKeySet(t1) = DictKeySet(t2)
    /\ \A k \in DictKeySet(t1) \ {"payload"} : DictGet(t1, k) = DictGet(t2, k)
    /\ SameItems(DictGet(t1, "payload"), DictGet(t2, "payload"))

----------------------------------------------------------------------------
(* Claims about the mining loop under fairness (checked under SpecMinerFair) *)

\* C21: every worker that is alive when stop_loop is called (the call has
\* cleared keep_mining and waits in join) eventually terminates, whatever
\* start_loop calls follow.
C21_StoppedWorkerTerminates ==
    \A w \in Threads : (ctl = "join" /\ Alive(w)) ~> ~Alive(w)

----------------------------------------------------------------------------
(* Claims about the displayed status (checked under SpecStats)             *)

\* The refresh started last among those whose result has been applied
\* (threads are numbered in the order in which update_stats started them).
NewestApplied ==
    CHOOSE w \in Fetchers :
        /\ \E j \in 1..Len(applied) : applied[j] = w
        /\ \A j \in 1..Len(applied) : applied[j] <= w

\* C22: the displayed stats and balance are never overwritten by an older
\* refresh: with no callback pending, the stats widget and the balance label
\* show the result of the refresh that was started last among the applied
\* ones, however long an earlier fetch took.
C22_NewestResultShown ==
    (applied # <<>> /\ after_queue = <<>>)
        => /\ txt_stats = StatsText(stats[NewestApplied])
           /\ lbl_balance = BalanceText(stats[NewestApplied],
                                        balance_info[NewestApplied], lbl_balance)

----------------------------------------------------------------------------
(* Claims about the miner tab (under SpecMining and SpecMiningKeys)        *)

\* C23: whenever no stop_mining is in progress, the miner tab agrees with
\* the loop: the label reads RUNNING, START MINING is disabled and STOP
\* MINING enabled exactly when keep_mining is set; and while no wallet is
\* loaded no step (a click on START MINING in particular) starts a loop or
\* changes label or buttons.
C23_TabAgreesWithLoop ==
    /\ [](ctl = "idle"
            => /\ (lbl_status = "Miner Status: RUNNING") <=> keep_mining
               /\ (lbl_status = "Miner Status: STOPPED") <=> ~keep_mining
               /\ (btn_start = "disabled") <=> keep_mining
               /\ (btn_stop = "normal") <=> keep_mining)
    /\ [][~Truthy(public_key)
            => UNCHANGED <<keep_mining, mining_thread, pc, buttonVars, envVars>>]_vars

\* C23 witness: the loop was started, stopped and started again while the
\* first thread was still alive.
C23_Witness ==
    /\ keep_mining /\ mining_thread = 2 /\ ctl = "idle" /\ Alive(1)
    /\ lbl_status = "Miner Status: RUNNING"

\* C24: every trigger_mine call of a worker uses the wallet address its
\* thread was created with, which is the public key the wallet had at the
\* start_loop that spawned it; no later step, a generate_wallet in
\* particular, changes the address a thread mines for.
C24_LoopKeepsItsAddress ==
    /\ [](\A w \in Threads : pc[w] = "trigger" => trigger_arg[w] = thread_args[w])
    /\ [][\A w \in Threads :
            /\ thread_args'[w] # thread_args[w]
                 => (pc[w] = "unborn" /\ pc'[w] = "while"
                       /\ thread_args'[w] = public_key)
            /\ pc[w] # "unborn" => thread_args'[w] = thread_args[w]]_vars

\* C24 witness: a worker is inside trigger_mine for the address it was
\* started with while the wallet already holds another public key.
C24_Witness ==
    \E w \in Threads :
        /\ pc[w] = "trigger" /\ wpc = "idle"
        /\ Truthy(trigger_arg[w]) /\ trigger_arg[w] # public_key

----------------------------------------------------------------------------
(* Claims about the keypair in memory (checked under SpecWallet)           *)

\* C25: the keypair in memory is always complete: whenever the process runs
\* and is not inside generate_wallet, private_key and public_key are both
\* absent or both present, whatever the key file held that load_wallet read,
\* and so no transaction is signed whose from_wallet or sender_public_key
\* is absent.
C25_KeypairComplete ==
    /\ (proc = "up" /\ wpc = "idle")
          => ((private_key = JNull) <=> (public_key = JNull))
    /\ signature.t = "sig"
          => /\ DictGet(tx, "from_wallet") # JNull
             /\ DictGet(tx, "sender_public_key") # JNull

----------------------------------------------------------------------------
(* Claims about EnvManager (checked under SpecEnv)                         *)

\* A default no entry has.
NoDefault == <<"?">>

RECURSIVE OtherContent(_, _)
\* What the lines hold besides the entries of key: the comment lines and the
\* other entries, in order, without surrounding whitespace.
OtherContent(ls, key) ==
    IF ls = <<>> THEN <<>>
    ELSE IF Strip(Head(ls)) = <<>> \/ (IsEntry(Head(ls)) /\ EntryKey(Head(ls)) = key)
    THEN OtherContent(Tail(ls), key)
    ELSE <<Strip(Head(ls))>> \o OtherContent(Tail(ls), key)

\* The number of entries of key in the lines.
EntryCount(ls, key) ==
    Cardinality({j \in 1..Len(ls) : IsEntry(ls[j]) /\ EntryKey(ls[j]) = key})

\* C26: set(k, v) updates exactly key k and survives persistence: after
\* set(k, v), get(k) returns v and get of every other key is unchanged, the
\* comment lines and other entries of self.lines are kept and no second
\* entry for k is added; and a load of the file that save wrote from the
\* present lines returns for every key the value get returned before, with
\* the comment lines and entries kept.
C26_SetGetPersist ==
    [][/\ env_call'.op = "set"
            => /\ EnvGet(env_vars', env_call'.key, NoDefault) = env_call'.value
               /\ \A k \in EnvKeys \ {env_call'.key} :
                     EnvGet(env_vars', k, NoDefault) = EnvGet(env_vars, k, NoDefault)
               /\ OtherContent(lines', env_call'.key) = OtherContent(lines, env_call'.key)
               /\ EntryCount(lines', env_call'.key)
                     = (IF EntryCount(lines, env_call'.key) = 0
                        THEN 1 ELSE EntryCount(lines, env_call'.key))
       /\ (env_call'.op = "load" /\ env_file = [exists |-> TRUE, text |-> JoinLines(lines)])
            => /\ \A k \in EnvKeys :
                     EnvGet(env_vars', k, NoDefault) = EnvGet(env_vars, k, NoDefault)
               /\ \A k \in EnvKeys :
                     OtherContent(lines', k) = OtherContent(lines, k)]_vars

====
